---------------------------- MODULE Spec2Model ----------------------------
(***************************************************************************)
(* Local Home Helper: the Flask handlers of app.py driving the SQLite      *)
(* store of database.py and the Ollama inference server.                   *)
(*                                                                         *)
(* One action per HTTP handler; a handler runs to completion (Flask        *)
(* request-per-call), so an action is the whole handler.  The inference    *)
(* server, the clock (datetime.now) and SQLite failures are environment    *)
(* inputs, drawn by \E in Next.                                            *)
(***************************************************************************)
EXTENDS Integers, Sequences, FiniteSets, TLC

VARIABLES
    session,      \* Flask session of each caller: chat_history, current_model, current_chat_id
    db,           \* chats.db: tables chats and messages and their AUTOINCREMENT sequences
    now,          \* last value returned by datetime.now()
    foreign_keys, \* whether the SQLite build enforces FOREIGN KEY clauses (off unless compiled in)
    last,         \* the request just served, until its response is delivered: handler, caller,
                  \* outbound calls made, response
    run,          \* the exchanges of the current unbroken series of saved submits of a fresh session
    store_errors  \* number of sqlite3 errors raised so far

vars == <<session, db, now, foreign_keys, last, run, store_errors>>

---------------------------------------------------------------------------
(* Bounds of the model *)

\* Config.CHAT_HISTORY_LIMIT as configured for the check (the default is 50)
HistoryLimit == 1
\* rows ever inserted into chats
MaxChats == 2
\* rows ever inserted into messages
MaxMessages == 4
\* distinct readings of datetime.now() after the first; every later reading ties
MaxClock == 4
\* sqlite3 errors raised in one run
MaxStoreErrors == 1

---------------------------------------------------------------------------
(* Values *)

\* the browser sessions (callers)
Sessions == {1, 2}

\* Python None for session['current_chat_id']; route ids (<int:chat_id>) are >= 0
None == -1

\* the `model` key missing from the request body
Absent == "<absent>"

DEFAULT_MODEL == "llama2:7b"
OTHER_MODEL == "mistral:7b"
Models == {DEFAULT_MODEL, OTHER_MODEL}
\* request bodies' `model`
RequestModels == {Absent, OTHER_MODEL}

\* request bodies' `message`
UserMessages == {"  ", " hi "}

\* content of the server's reply
Replies == {"ok"}
NO_RESPONSE == "No response from model"

\* request bodies' `title` of POST /api/chats and of PUT /api/chats/<id>
CreateTitles == {Absent}
UpdateTitles == {" t ", "  "}
NEW_CHAT == "New Chat"

\* a model the server may list that no request asks for
CODE_MODEL == "codellama:7b"

\* /api/tags listings
Listings == {<<>>, <<CODE_MODEL, DEFAULT_MODEL>>, <<OTHER_MODEL, DEFAULT_MODEL>>}

\* ids a caller may put in the URL
RouteIds == 0..MaxChats

Min(a, b) == IF a < b THEN a ELSE b

---------------------------------------------------------------------------
(* Python helpers *)

WS == " "

RECURSIVE lstrip(_)
lstrip(s) ==
    IF Len(s) > 0 /\ SubSeq(s, 1, 1) = WS THEN lstrip(SubSeq(s, 2, Len(s))) ELSE s

RECURSIVE rstrip(_)
rstrip(s) ==
    IF Len(s) > 0 /\ SubSeq(s, Len(s), Len(s)) = WS THEN rstrip(SubSeq(s, 1, Len(s) - 1)) ELSE s

\* mutant of strip: the text is taken as it is sent
WithoutStrip(s) == s

\* str.strip()
strip(s) == rstrip(lstrip(s))

\* truth value of session.get('current_chat_id')
Truthy(id) == id # None /\ id # 0

\* mutant of LastSlice: lst[:n], the oldest entries are the ones kept
LastSliceFromFront(lst, n) ==
    IF n >= Len(lst) THEN lst ELSE SubSeq(lst, 1, n)

\* lst[-n:]  (n = 0 gives lst[0:], the whole list)
LastSlice(lst, n) ==
    IF n = 0 \/ n >= Len(lst) THEN lst ELSE SubSeq(lst, Len(lst) - n + 1, Len(lst))

Entry(role, content) == [role |-> role, content |-> content]

---------------------------------------------------------------------------
(* The clock *)

\* the results of k successive datetime.now() calls, the last reading being t
RECURSIVE Readings(_, _)
Readings(t, k) ==
    IF k = 0 THEN {<<>>}
    ELSE UNION {{<<u>> \o r : r \in Readings(u, k - 1)} : u \in t..Min(t + 1, MaxClock)}

---------------------------------------------------------------------------
(* database.py: ChatDatabase.  A method maps the database to the database  *)
(* after its commit; a raised exception rolls the transaction back and is  *)
(* modelled at the call site.                                              *)

ChatIds(d) == {c.id : c \in d.chats}

\* CREATE TABLE IF NOT EXISTS chats / messages on a new file
init_database ==
    [chats |-> {}, messages |-> {}, chat_seq |-> 0, message_seq |-> 0]

\* mutant of db_create_chat: id INTEGER PRIMARY KEY without AUTOINCREMENT, the
\* new rowid is one more than the largest rowid in the table
db_create_chat_reusing_rowid(d, title, model, t) ==
    LET rowid == IF d.chats = {} THEN 1
                 ELSE 1 + CHOOSE x \in ChatIds(d) : \A y \in ChatIds(d) : x >= y
    IN  [d EXCEPT !.chat_seq = rowid,
                  !.chats = d.chats \cup {[id |-> rowid, title |-> title, model |-> model,
                                           created_at |-> t[1], updated_at |-> t[2]]}]

\* INSERT INTO chats; returns the database, cursor.lastrowid is chat_seq
db_create_chat(d, title, model, t) ==
    [d EXCEPT !.chat_seq = d.chat_seq + 1,
              !.chats = d.chats \cup {[id |-> d.chat_seq + 1, title |-> title, model |-> model,
                                       created_at |-> t[1], updated_at |-> t[2]]}]

\* the FOREIGN KEY (chat_id) REFERENCES chats (id) check of the INSERT
ForeignKeyViolation(d, chat_id) == foreign_keys /\ chat_id \notin ChatIds(d)

\* INSERT INTO messages, then UPDATE chats SET updated_at
db_add_message(d, chat_id, role, content, t) ==
    [d EXCEPT !.message_seq = d.message_seq + 1,
              !.messages = d.messages \cup {[id |-> d.message_seq + 1, chat_id |-> chat_id,
                                             role |-> role, content |-> content,
                                             timestamp |-> t[1]]},
              !.chats = {IF c.id = chat_id THEN [c EXCEPT !.updated_at = t[2]] ELSE c
                         : c \in d.chats}]

\* UPDATE chats SET title, updated_at WHERE id
db_update_chat_title(d, chat_id, new_title, t) ==
    [d EXCEPT !.chats = {IF c.id = chat_id
                         THEN [c EXCEPT !.title = new_title, !.updated_at = t[1]] ELSE c
                         : c \in d.chats}]

\* mutant of db_delete_chat: only the chat's row is deleted, its messages are
\* left to ON DELETE CASCADE
db_delete_chat_row_only(d, chat_id) ==
    [d EXCEPT !.chats = {c \in d.chats : c.id # chat_id}]

\* DELETE FROM messages WHERE chat_id, then DELETE FROM chats WHERE id
db_delete_chat(d, chat_id) ==
    [d EXCEPT !.messages = {m \in d.messages : m.chat_id # chat_id},
              !.chats = {c \in d.chats : c.id # chat_id}]

\* the rows of messages WHERE chat_id
MessagesOf(d, chat_id) == {m \in d.messages : m.chat_id = chat_id}

\* the orders ORDER BY timestamp ASC may return rows in: rows of equal
\* timestamp come in an order SQL leaves unspecified
RECURSIVE OrderByTimestamp(_)
OrderByTimestamp(rows) ==
    IF rows = {} THEN {<<>>}
    ELSE UNION {{<<[role |-> r.role, content |-> r.content, timestamp |-> r.timestamp]>> \o rest
                 : rest \in OrderByTimestamp(rows \ {r})}
                : r \in {x \in rows : \A y \in rows : x.timestamp <= y.timestamp}}

\* the rows in rowid order, i.e. the order of their INSERTs
RECURSIVE OrderById(_)
OrderById(rows) ==
    IF rows = {} THEN <<>>
    ELSE LET r == CHOOSE x \in rows : \A y \in rows : x.id <= y.id
         IN <<[role |-> r.role, content |-> r.content, timestamp |-> r.timestamp]>>
            \o OrderById(rows \ {r})

\* mutant of db_get_chat: the `if not chat_row: return None` check is left
\* out, a chat without a row is returned with empty fields
db_get_chat_without_row_check(d, chat_id) ==
    LET rows == {x \in d.chats : x.id = chat_id}
        c == IF rows = {}
             THEN [id |-> chat_id, title |-> "", model |-> "", created_at |-> 0, updated_at |-> 0]
             ELSE CHOOSE x \in rows : TRUE
    IN {<<[id |-> c.id, title |-> c.title, model |-> c.model,
           created_at |-> c.created_at, updated_at |-> c.updated_at,
           messages |-> ms]>> : ms \in OrderByTimestamp(MessagesOf(d, chat_id))}

\* get_chat: the values the call may return; <<>> stands for None
db_get_chat(d, chat_id) ==
    IF chat_id \notin ChatIds(d) THEN {<<>>}
    ELSE LET c == CHOOSE x \in d.chats : x.id = chat_id
         IN {<<[id |-> c.id, title |-> c.title, model |-> c.model,
                created_at |-> c.created_at, updated_at |-> c.updated_at,
                messages |-> ms]>> : ms \in OrderByTimestamp(MessagesOf(d, chat_id))}

---------------------------------------------------------------------------
(* app.py: the session and the record of the request being served *)

\* initialize_session
NewSession == [chat_history |-> <<>>, current_model |-> DEFAULT_MODEL, current_chat_id |-> None]

\* a request of caller s to handler op, before any outbound call is made
Request(op, s) ==
    [op |-> op, sid |-> s, user_message |-> "", title |-> "", model |-> "", chat_id |-> None,
     probe |-> "none", listing |-> "none", available_models |-> <<>>,
     completion |-> "none", calls |-> <<>>, history_len |-> 0, store |-> "none",
     status |-> 0, body |-> [error |-> ""]]

NoRun == [sid |-> 0, log |-> <<>>]

\* outcomes of requests.get(/api/tags, timeout=5)
Probes == {"200", "500", "RequestException"}

\* outcomes of the second requests.get(/api/tags) and of .json() on its body
ListingOutcomes == {"ok", "error"}

\* outcomes of requests.post(/api/chat): a reply with content, a reply without
\* the message.content field, a non-200 status, a transport exception
Completions == {"content", "no_content", "500", "RequestException"}

\* the timestamps of the messages strictly increase in the order of their INSERTs
StrictlyLater(d) ==
    \A m, n \in d.messages : m.id < n.id => m.timestamp < n.timestamp

\* what the inference server and the callers may do: any outcome of every
\* outbound call and any model in a request
AnyServer ==
    [probes |-> Probes, listings |-> ListingOutcomes, available |-> Listings,
     completions |-> Completions, models |-> RequestModels, fine_clock |-> FALSE]

\* an inference server that is up, serves both models and always replies,
\* and callers that leave the model to the session
HealthyServer ==
    [probes |-> {"200"}, listings |-> {"ok"}, available |-> {<<OTHER_MODEL, DEFAULT_MODEL>>},
     completions |-> {"content"}, models |-> {Absent}, fine_clock |-> FALSE]

\* the same, with a clock fine enough to give every message a later
\* timestamp than the message before it
HealthyServerFineClock == [HealthyServer EXCEPT !.fine_clock = TRUE]

\* the store call an sqlite3 error is raised in, if any
StoreFailures == {"none", "create_chat", "add_message_1", "add_message_2"}

\* the store calls of a submit in which an error may be raised now
StoreErrors(bound) ==
    IF store_errors >= MaxStoreErrors THEN {"none"}
    ELSE IF bound THEN StoreFailures \ {"create_chat"}
    ELSE StoreFailures

\* the outbound calls to the inference server, as logged in a request's record
TAGS_PROBE == "GET /api/tags timeout=5"
TAGS == "GET /api/tags"
CHAT == "POST /api/chat timeout=120"

\* mutant of CompletionCalls: a failed completion call is tried once more
CompletionCallsWithRetry(completion) ==
    IF completion \in {"500", "RequestException"} THEN <<CHAT, CHAT>> ELSE <<CHAT>>

\* requests.post(/api/chat): one call, whatever its outcome
CompletionCalls(completion) == <<CHAT>>

\* mutant of ProbeFailed: the status of the probe's response is not looked at
ProbeFailedOnExceptionOnly(probe) == probe = "RequestException"

\* status_code != 200 or RequestException
ProbeFailed(probe) == probe # "200"

\* model in available_models
ModelAvailable(model, available_models) ==
    \E i \in 1..Len(available_models) : available_models[i] = model

\* mutant of Join: the names are joined with "," alone
RECURSIVE JoinNoSpace(_)
JoinNoSpace(names) ==
    IF Len(names) = 0 THEN ""
    ELSE IF Len(names) = 1 THEN names[1]
    ELSE names[1] \o "," \o JoinNoSpace(Tail(names))

\* ", ".join(available_models)
RECURSIVE Join(_)
Join(names) ==
    IF Len(names) = 0 THEN ""
    ELSE IF Len(names) = 1 THEN names[1]
    ELSE names[1] \o ", " \o Join(Tail(names))

ModelNotAvailable(model, available_models) ==
    "Model " \o model \o " is not available. Available models: " \o Join(available_models)

\* mutant of CompletionFailed: the status of the completion response is not
\* looked at
CompletionFailedOnExceptionOnly(completion) == completion = "RequestException"

\* ollama_response.status_code != 200, or requests.post raised
CompletionFailed(completion) == completion \in {"500", "RequestException"}

\* response_data.get('message', {}).get('content', 'No response from model')
AiMessage(completion, content) == IF completion = "content" THEN content ELSE NO_RESPONSE

\* mutant of UpdateHistory: the history is cut before the new pair is added
UpdateHistoryLimitFirst(chat_history, user_message, ai_message) ==
    LET kept == IF Len(chat_history) > HistoryLimit * 2
                THEN LastSlice(chat_history, HistoryLimit * 2)
                ELSE chat_history
    IN  kept \o <<Entry("user", user_message), Entry("assistant", ai_message)>>

\* mutant of UpdateHistory: the oldest exchange is dropped one exchange late
UpdateHistoryLateLimit(chat_history, user_message, ai_message) ==
    LET extended == chat_history \o <<Entry("user", user_message), Entry("assistant", ai_message)>>
    IN  IF Len(extended) > HistoryLimit * 2 + 2
        THEN LastSlice(extended, HistoryLimit * 2)
        ELSE extended

\* chat_history.extend([user, assistant]); then the limit of the history
UpdateHistory(chat_history, user_message, ai_message) ==
    LET extended == chat_history \o <<Entry("user", user_message), Entry("assistant", ai_message)>>
    IN  IF Len(extended) > HistoryLimit * 2
        THEN LastSlice(extended, HistoryLimit * 2)
        ELSE extended

TITLE_LIMIT == 50

\* mutant of Title: a message of exactly 50 characters is cut as well
TitleCutAtLimit(user_message) ==
    IF Len(user_message) >= TITLE_LIMIT
    THEN SubSeq(user_message, 1, TITLE_LIMIT) \o "..."
    ELSE user_message

\* user_message[:50] + "..." if len(user_message) > 50 else user_message
Title(user_message) ==
    IF Len(user_message) > TITLE_LIMIT
    THEN SubSeq(user_message, 1, TITLE_LIMIT) \o "..."
    ELSE user_message

\* the messages of the exchange written to the store, given the call that raised
SaveExchange(d, chat_id, creates, title, model, user_message, ai_message, add1, add2, t) ==
    LET o  == IF creates THEN 2 ELSE 0
        d0 == IF creates THEN db_create_chat(d, title, model, SubSeq(t, 1, 2)) ELSE d
        d1 == IF add1 THEN db_add_message(d0, chat_id, "user", user_message, SubSeq(t, o + 1, o + 2))
              ELSE d0
    IN  IF add2 THEN db_add_message(d1, chat_id, "assistant", ai_message, SubSeq(t, o + 3, o + 4))
        ELSE d1

\* mutant of Swallowed: an error of a store call reaches the outer handler
SwallowedWhenSaved(store) == store = "saved"

\* except Exception around the store calls: the error is logged and the
\* handler goes on to return the reply
Swallowed(store) == TRUE

\* the series of saved submits of a fresh session, extended by the exchange
\* of this response
ExtendRun(s, response) ==
    LET pair  == <<Entry("user", response.user_message),
                   Entry("assistant", response.body.response)>>
        fresh == session[s].chat_history = <<>> /\ session[s].current_chat_id = None
    IN  IF ~(response.status = 200 /\ response.store = "saved") THEN NoRun
        ELSE IF fresh THEN [sid |-> s, log |-> pair]
        ELSE IF run.sid = s /\ Len(run.log) < 2 * (HistoryLimit + 1)
             THEN [sid |-> s, log |-> run.log \o pair]
        ELSE NoRun

---------------------------------------------------------------------------
(* The server: a request is taken when no response is outstanding, served  *)
(* to completion, and its response is delivered.                           *)

Idle == last.op = "none"

deliver ==
    /\ ~Idle
    /\ last' = Request("none", 0)
    /\ UNCHANGED <<session, db, now, foreign_keys, run, store_errors>>

---------------------------------------------------------------------------
(* POST /api/chat *)

chat(s, message, reqModel, E) ==
    LET user_message == strip(message)
        model == IF reqModel = Absent THEN session[s].current_model ELSE reqModel
        req == [Request("chat", s) EXCEPT !.user_message = user_message, !.model = model]
    IN
    /\ Idle
    /\ UNCHANGED foreign_keys
    /\ IF user_message = ""
       THEN /\ last' = [req EXCEPT !.status = 400, !.body = [error |-> "Message cannot be empty"]]
            /\ UNCHANGED <<session, db, now, store_errors>>
       ELSE
       \E probe \in E.probes :
       IF ProbeFailed(probe)
       THEN /\ last' = [req EXCEPT !.probe = probe, !.calls = <<TAGS_PROBE>>, !.status = 503,
                          !.body = [error |-> IF probe = "RequestException"
                                              THEN "Cannot connect to Ollama. Please make sure it is running."
                                              ELSE "Ollama is not running. Please start Ollama first."]]
            /\ session' = [session EXCEPT ![s].current_model = model]
            /\ UNCHANGED <<db, now, store_errors>>
       ELSE
       \E listing \in E.listings :
       IF listing = "error"
       THEN /\ last' = [req EXCEPT !.probe = probe, !.listing = listing,
                          !.calls = <<TAGS_PROBE, TAGS>>, !.status = 500,
                          !.body = [error |-> "Error checking available models"]]
            /\ session' = [session EXCEPT ![s].current_model = model]
            /\ UNCHANGED <<db, now, store_errors>>
       ELSE
       \E available_models \in E.available :
       IF ~ModelAvailable(model, available_models)
       THEN /\ last' = [req EXCEPT !.probe = probe, !.listing = listing,
                          !.available_models = available_models,
                          !.calls = <<TAGS_PROBE, TAGS>>, !.status = 404,
                          !.body = [error |-> ModelNotAvailable(model, available_models)]]
            /\ session' = [session EXCEPT ![s].current_model = model]
            /\ UNCHANGED <<db, now, store_errors>>
       ELSE
       \E completion \in E.completions :
       LET called == [req EXCEPT !.probe = probe, !.listing = listing,
                        !.available_models = available_models, !.completion = completion,
                        !.calls = <<TAGS_PROBE, TAGS>> \o CompletionCalls(completion)]
       IN
       IF CompletionFailed(completion)
       THEN /\ last' = [called EXCEPT !.status = 500,
                          !.body = [error |-> IF completion = "500"
                                              THEN "Error communicating with Ollama"
                                              ELSE "Internal server error"]]
            /\ session' = [session EXCEPT ![s].current_model = model]
            /\ UNCHANGED <<db, now, store_errors>>
       ELSE
       \E content \in Replies :
       LET ai_message == AiMessage(completion, content)
           chat_history == UpdateHistory(session[s].chat_history, user_message, ai_message)
           current_chat_id == session[s].current_chat_id
           bound == Truthy(current_chat_id)
       IN
       \E fail \in StoreErrors(bound) :
       LET creates == ~bound /\ fail # "create_chat"
           chat_id == IF bound THEN current_chat_id ELSE db.chat_seq + 1
           add1 == /\ bound \/ creates
                   /\ fail # "add_message_1"
                   /\ ~(bound /\ ForeignKeyViolation(db, chat_id))
           add2 == add1 /\ fail # "add_message_2"
           adds == (IF add1 THEN 1 ELSE 0) + (IF add2 THEN 1 ELSE 0)
           k == 2 * ((IF creates THEN 1 ELSE 0) + adds)
           store == IF add2 THEN "saved"
                    ELSE IF ~(bound \/ creates) THEN "create_chat"
                    ELSE IF ~add1 THEN "add_message_1"
                    ELSE "add_message_2"
       IN
       /\ creates => db.chat_seq < MaxChats
       /\ db.message_seq + adds <= MaxMessages
       /\ \E t \in Readings(now, k) :
          /\ db' = SaveExchange(db, chat_id, creates, Title(user_message), model,
                                user_message, ai_message, add1, add2, t)
          /\ E.fine_clock => StrictlyLater(db')
          /\ now' = IF k = 0 THEN now ELSE t[k]
       /\ store_errors' = IF fail = "none" THEN store_errors ELSE store_errors + 1
       /\ session' = [session EXCEPT ![s] =
                        [chat_history |-> chat_history,
                         current_model |-> model,
                         current_chat_id |-> IF creates THEN chat_id ELSE current_chat_id]]
       /\ last' = [called EXCEPT !.history_len = Len(session[s].chat_history),
                     !.chat_id = chat_id, !.store = store,
                     !.status = IF Swallowed(store) THEN 200 ELSE 500,
                     !.body = IF Swallowed(store)
                              THEN [response |-> ai_message, model |-> model]
                              ELSE [error |-> "Internal server error"]]
    /\ run' = ExtendRun(s, last')

---------------------------------------------------------------------------
(* POST /api/clear-chat *)

\* mutant of ClearedSession: the whole session is reset, as session.clear()
\* followed by initialize_session would
ClearedSessionWhole(sess) == NewSession

\* session['chat_history'] = []; session['current_chat_id'] = None
ClearedSession(sess) == [sess EXCEPT !.chat_history = <<>>, !.current_chat_id = None]

clear_chat(s) ==
    /\ Idle
    /\ session' = [session EXCEPT ![s] = ClearedSession(session[s])]
    /\ last' = [Request("clear_chat", s) EXCEPT !.status = 200,
                  !.body = [message |-> "Chat history cleared"]]
    /\ run' = NoRun
    /\ UNCHANGED <<db, now, foreign_keys, store_errors>>

---------------------------------------------------------------------------
(* GET /api/models *)

get_models(s, E) ==
    /\ Idle
    /\ \E probe \in E.probes :
       IF probe = "200"
       THEN \E available_models \in E.available :
            last' = [Request("get_models", s) EXCEPT !.probe = probe, !.calls = <<TAGS_PROBE>>,
                       !.available_models = available_models, !.status = 200,
                       !.body = [models |-> available_models,
                                 current_model |-> session[s].current_model]]
       ELSE last' = [Request("get_models", s) EXCEPT !.probe = probe, !.calls = <<TAGS_PROBE>>,
                       !.status = 500,
                       !.body = [error |-> IF probe = "500" THEN "Failed to fetch models"
                                           ELSE "Error fetching models"]]
    /\ run' = NoRun
    /\ UNCHANGED <<session, db, now, foreign_keys, store_errors>>

---------------------------------------------------------------------------
(* GET /api/health *)

health_check(s, E) ==
    /\ Idle
    /\ \E probe \in E.probes :
       last' = [Request("health_check", s) EXCEPT !.probe = probe, !.calls = <<TAGS_PROBE>>,
                  !.status = IF probe = "200" THEN 200 ELSE 503,
                  !.body = IF probe = "200"
                           THEN [status |-> "healthy", ollama |-> "running",
                                 current_model |-> session[s].current_model]
                           ELSE IF probe = "500"
                           THEN [status |-> "unhealthy", ollama |-> "not responding",
                                 current_model |-> session[s].current_model]
                           ELSE [status |-> "unhealthy", ollama |-> "not accessible",
                                 error |-> "RequestException"]]
    /\ run' = NoRun
    /\ UNCHANGED <<session, db, now, foreign_keys, store_errors>>

---------------------------------------------------------------------------
(* GET /api/chats *)

\* whether an sqlite3 error may be raised in a store call now
MayRaise == store_errors < MaxStoreErrors

\* the orders ORDER BY c.updated_at DESC may return the chats in, each with
\* its COUNT(m.id)
RECURSIVE OrderByUpdatedDesc(_, _)
OrderByUpdatedDesc(d, rows) ==
    IF rows = {} THEN {<<>>}
    ELSE UNION {{<<[id |-> c.id, title |-> c.title, model |-> c.model,
                    created_at |-> c.created_at, updated_at |-> c.updated_at,
                    message_count |-> Cardinality(MessagesOf(d, c.id))]>> \o rest
                 : rest \in OrderByUpdatedDesc(d, rows \ {c})}
                : c \in {x \in rows : \A y \in rows : x.updated_at >= y.updated_at}}

\* ChatDatabase.get_chats; an sqlite3 error is answered with []
db_get_chats(d) == OrderByUpdatedDesc(d, d.chats)

get_chats(s) ==
    /\ Idle
    /\ \/ /\ \E chats \in db_get_chats(db) :
               last' = [Request("get_chats", s) EXCEPT !.store = "ok", !.status = 200,
                          !.body = [chats |-> chats]]
          /\ UNCHANGED store_errors
       \/ /\ MayRaise
          /\ last' = [Request("get_chats", s) EXCEPT !.store = "get_chats", !.status = 200,
                        !.body = [chats |-> <<>>]]
          /\ store_errors' = store_errors + 1
    /\ run' = NoRun
    /\ UNCHANGED <<session, db, now, foreign_keys>>

---------------------------------------------------------------------------
(* POST /api/chats *)

create_chat(s, reqTitle, reqModel) ==
    LET title == IF reqTitle = Absent THEN NEW_CHAT ELSE reqTitle
        model == IF reqModel = Absent THEN session[s].current_model ELSE reqModel
        req == [Request("create_chat", s) EXCEPT !.model = model]
    IN
    /\ Idle
    /\ db.chat_seq < MaxChats
    /\ \/ /\ \E t \in Readings(now, 2) :
             /\ db' = db_create_chat(db, title, model, t)
             /\ now' = t[2]
          /\ session' = [session EXCEPT ![s].chat_history = <<>>,
                                        ![s].current_chat_id = db.chat_seq + 1]
          /\ last' = [req EXCEPT !.store = "ok", !.status = 200, !.chat_id = db.chat_seq + 1,
                        !.body = [message |-> "Chat created successfully",
                                  chat_id |-> db.chat_seq + 1, title |-> title]]
          /\ UNCHANGED store_errors
       \/ /\ MayRaise
          /\ last' = [req EXCEPT !.store = "create_chat", !.status = 500,
                        !.body = [error |-> "Failed to create chat"]]
          /\ store_errors' = store_errors + 1
          /\ UNCHANGED <<session, db, now>>
    /\ run' = NoRun
    /\ UNCHANGED foreign_keys

---------------------------------------------------------------------------
(* GET /api/chats/<int:chat_id> *)

\* mutant of SessionFormat: the loaded history is cut to the limit of the
\* history, as a submit cuts it
SessionFormatLimited(messages) ==
    LastSlice([i \in 1..Len(messages) |-> Entry(messages[i].role, messages[i].content)],
              HistoryLimit * 2)

\* the role/content entries the loop appends to session['chat_history']
SessionFormat(messages) ==
    [i \in 1..Len(messages) |-> Entry(messages[i].role, messages[i].content)]

get_chat(s, chat_id) ==
    LET req == [Request("get_chat", s) EXCEPT !.chat_id = chat_id]
    IN
    /\ Idle
    /\ \/ /\ \E found \in db_get_chat(db, chat_id) :
             IF found = <<>>
             THEN /\ last' = [req EXCEPT !.store = "ok", !.status = 404,
                                !.body = [error |-> "Chat not found"]]
                  /\ UNCHANGED session
             ELSE /\ session' = [session EXCEPT ![s].current_chat_id = chat_id,
                                                ![s].chat_history = SessionFormat(found[1].messages)]
                  /\ last' = [req EXCEPT !.store = "ok", !.status = 200,
                                !.body = [chat |-> found[1], message |-> "Chat loaded successfully"]]
          /\ UNCHANGED store_errors
       \/ /\ MayRaise
          /\ last' = [req EXCEPT !.store = "get_chat", !.status = 404,
                        !.body = [error |-> "Chat not found"]]
          /\ store_errors' = store_errors + 1
          /\ UNCHANGED session
    /\ run' = NoRun
    /\ UNCHANGED <<db, now, foreign_keys>>

---------------------------------------------------------------------------
(* PUT /api/chats/<int:chat_id> *)

update_chat(s, chat_id, reqTitle) ==
    LET title == IF reqTitle = Absent THEN "" ELSE reqTitle
        new_title == strip(title)
        req == [Request("update_chat", s) EXCEPT !.chat_id = chat_id, !.title = title]
    IN
    /\ Idle
    /\ IF new_title = ""
       THEN /\ last' = [req EXCEPT !.status = 400, !.body = [error |-> "Title cannot be empty"]]
            /\ UNCHANGED <<db, now, store_errors>>
       ELSE \/ /\ \E t \in Readings(now, 1) :
                  /\ db' = db_update_chat_title(db, chat_id, new_title, t)
                  /\ now' = t[1]
               /\ last' = [req EXCEPT !.store = "ok", !.status = 200,
                             !.body = [message |-> "Chat title updated successfully"]]
               /\ UNCHANGED store_errors
            \/ /\ MayRaise
               /\ last' = [req EXCEPT !.store = "update_chat_title", !.status = 500,
                             !.body = [error |-> "Failed to update chat title"]]
               /\ store_errors' = store_errors + 1
               /\ UNCHANGED <<db, now>>
    /\ run' = NoRun
    /\ UNCHANGED <<session, foreign_keys>>

---------------------------------------------------------------------------
(* DELETE /api/chats/<int:chat_id> *)

\* mutant of IsCurrentChat: the session is cleared whichever chat is deleted
IsCurrentChatAlways(s, chat_id) == TRUE

\* session.get('current_chat_id') == chat_id
IsCurrentChat(s, chat_id) == session[s].current_chat_id = chat_id

\* mutant of ForgetChat: the deleted chat is dropped from every session that
\* has it active
ForgetChatEverywhere(s, chat_id) ==
    [x \in Sessions |->
        IF session[x].current_chat_id = chat_id
        THEN [session[x] EXCEPT !.chat_history = <<>>, !.current_chat_id = None]
        ELSE session[x]]

\* mutant of ForgetChat: the pointer is unset, the history is kept
ForgetChatPointerOnly(s, chat_id) ==
    IF IsCurrentChat(s, chat_id)
    THEN [session EXCEPT ![s].current_chat_id = None]
    ELSE session

\* if the deleted chat is the caller's current chat, the caller's session is
\* cleared; no other session is looked at
ForgetChat(s, chat_id) ==
    IF IsCurrentChat(s, chat_id)
    THEN [session EXCEPT ![s].chat_history = <<>>, ![s].current_chat_id = None]
    ELSE session

delete_chat(s, chat_id) ==
    LET req == [Request("delete_chat", s) EXCEPT !.chat_id = chat_id]
    IN
    /\ Idle
    /\ \/ /\ db' = db_delete_chat(db, chat_id)
          /\ session' = ForgetChat(s, chat_id)
          /\ last' = [req EXCEPT !.store = "ok", !.status = 200,
                        !.body = [message |-> "Chat deleted successfully"]]
          /\ UNCHANGED store_errors
       \/ /\ MayRaise
          /\ last' = [req EXCEPT !.store = "delete_chat", !.status = 500,
                        !.body = [error |-> "Failed to delete chat"]]
          /\ store_errors' = store_errors + 1
          /\ UNCHANGED <<session, db>>
    /\ run' = NoRun
    /\ UNCHANGED <<now, foreign_keys>>

\* the handlers a caller can reach
Handlers(s, E) ==
    \/ \E message \in UserMessages, reqModel \in E.models : chat(s, message, reqModel, E)
    \/ get_models(s, E)
    \/ clear_chat(s)
    \/ get_chats(s)
    \/ \E reqTitle \in CreateTitles, reqModel \in E.models : create_chat(s, reqTitle, reqModel)
    \/ \E chat_id \in RouteIds : get_chat(s, chat_id)
    \/ \E chat_id \in RouteIds, reqTitle \in UpdateTitles : update_chat(s, chat_id, reqTitle)
    \/ \E chat_id \in RouteIds : delete_chat(s, chat_id)
    \/ health_check(s, E)

InitApp ==
    /\ session = [s \in Sessions |-> NewSession]
    /\ db = init_database
    /\ last = Request("none", 0)
    /\ run = NoRun

(* One caller, a store that may raise, and a clock too coarse to tell any  *)
(* two readings apart: all timestamps tie, so that ORDER BY may return the *)
(* rows in every order, the insertion order included.  With one caller no  *)
(* message is ever inserted for a missing chat, so the foreign-key setting *)
(* of the SQLite build is immaterial.                                      *)
Init ==
    /\ InitApp
    /\ now = MaxClock
    /\ store_errors = 0
    /\ foreign_keys = FALSE

Next ==
    \/ \E s \in {1} : Handlers(s, AnyServer)
    \/ deliver

Spec == Init /\ [][Next]_vars

(* Two callers sharing the store, on either SQLite build; the store raises *)
(* no error and the inference server is healthy.                           *)
InitShared ==
    /\ InitApp
    /\ now = MaxClock
    /\ store_errors = MaxStoreErrors
    /\ foreign_keys \in BOOLEAN

NextShared ==
    \/ \E s \in Sessions : Handlers(s, HealthyServer)
    \/ deliver

SpecShared == InitShared /\ [][NextShared]_vars

---------------------------------------------------------------------------
(* First submits with messages around the length at which the title is cut *)

\* length of the longest message sent
MaxMessageLen == 60

\* the first n characters of abcdefgabcdefg...
RECURSIVE Text(_)
Text(n) ==
    IF n = 0 THEN ""
    ELSE Text(n - 1) \o SubSeq("abcdefg", ((n - 1) % 7) + 1, ((n - 1) % 7) + 1)

\* request bodies' `message`: texts of the lengths around the cut, sent with
\* and without surrounding whitespace
LongMessages ==
    {lead \o Text(n) \o trail :
        n \in {1, TITLE_LIMIT - 1, TITLE_LIMIT, TITLE_LIMIT + 1, MaxMessageLen},
        lead \in {"", WS}, trail \in {"", WS}}

InitTitles ==
    /\ InitApp
    /\ now = MaxClock
    /\ store_errors = 0
    /\ foreign_keys = FALSE

NextTitles ==
    \/ \E message \in LongMessages : chat(1, message, Absent, HealthyServer)
    \/ clear_chat(1)
    \/ deliver

SpecTitles == InitTitles /\ [][NextTitles]_vars

---------------------------------------------------------------------------
(* One caller, a store that raises no error, and a clock fine enough to    *)
(* give every message a later timestamp than the message before it.        *)

InitSingle ==
    /\ InitApp
    /\ now = 0
    /\ store_errors = MaxStoreErrors
    /\ foreign_keys = FALSE

NextSingle ==
    \/ \E s \in {1} : Handlers(s, HealthyServerFineClock)
    \/ deliver

SpecSingle == InitSingle /\ [][NextSingle]_vars

---------------------------------------------------------------------------
(* Properties.  `last` is unprimed in a state reached by a handler and     *)
(* primed in the step a handler takes; the error kinds are told apart by   *)
(* the HTTP status: ValidationError 400, ServiceUnavailable 503,           *)
(* ModelNotFound 404.                                                      *)

History(s) == session[s].chat_history
Pointer(s) == session[s].current_chat_id

\* a submit was served and answered with a reply
Replied(r) == r.op = "chat" /\ r.status = 200

\* the probe of a submit failed: non-success status or transport error
ProbeDown(r) == r.op = "chat" /\ r.probe \in {"500", "RequestException"}

\* C1: a submit rejected with ValidationError, ServiceUnavailable or
\* ModelNotFound leaves the whole session state and the store as they were
\* and issues no completion call.
C1_RejectedSubmitHasNoSideEffect ==
    [][(last'.op = "chat" /\ last'.status \in {400, 503, 404})
       => /\ session' = session
          /\ db' = db
          /\ last'.completion = "none"]_vars

\* C2: a submit of a non-empty message while the probe fails (transport
\* error or non-success status) returns ServiceUnavailable and leaves the
\* rolling history of the session unchanged.
C2_UnreachableServer ==
    [][(ProbeDown(last') /\ last'.user_message # "")
       => /\ last'.status = 503
          /\ session'[last'.sid].chat_history = History(last'.sid)]_vars

\* C2 witness: a submit was answered ServiceUnavailable in a session that
\* holds a history and an active chat.
C2_Witness ==
    /\ ProbeDown(last)
    /\ last.status = 503
    /\ History(last.sid) # <<>>
    /\ Pointer(last.sid) # None

\* the two entries a replied submit adds to the history
Pair(r) == <<Entry("user", r.user_message), Entry("assistant", r.body.response)>>

\* a submit of a non-empty message found the server reachable and the model listed
Accepted(r) ==
    /\ r.op = "chat"
    /\ r.user_message # ""
    /\ r.probe = "200"
    /\ r.listing = "ok"
    /\ ModelAvailable(r.model, r.available_models)

C5_EvictedButPersisted ==
    (run.sid # 0 /\ Len(run.log) = 2 * (HistoryLimit + 1))
    => /\ History(run.sid) = SubSeq(run.log, 3, Len(run.log))
       /\ Len(History(run.sid)) = 2 * HistoryLimit
       /\ Pointer(run.sid) \in ChatIds(db)
       /\ Cardinality(MessagesOf(db, Pointer(run.sid))) = 2 * (HistoryLimit + 1)
       /\ SessionFormat(OrderById(MessagesOf(db, Pointer(run.sid)))) = run.log

\* C5 witness: history_limit + 1 consecutive saved submits of a fresh
\* session were made, the first with another reply than the last.
C5_Witness ==
    /\ run.sid # 0
    /\ Len(run.log) = 2 * (HistoryLimit + 1)
    /\ run.log[2] # run.log[Len(run.log)]

\* C6: every stored message's chat_id names a chat that exists in the store.
C6_MessagesBelongToChats ==
    \A m \in db.messages : m.chat_id \in ChatIds(db)

\* C7: whenever the completion call succeeds the submit returns the reply
\* as a success and the history ends with the new (user, assistant) pair,
\* whichever store call fails.
C7_ReplyDespiteStoreFailure ==
    (last.op = "chat" /\ last.completion \in {"content", "no_content"})
    => /\ last.status = 200
       /\ last.body.response \in Replies \cup {NO_RESPONSE}
       /\ last.completion = "no_content" => last.body.response = NO_RESPONSE
       /\ Len(History(last.sid)) >= 2
       /\ SubSeq(History(last.sid), Len(History(last.sid)) - 1, Len(History(last.sid)))
          = Pair(last)

\* C7 witness: a submit was replied to although a store call of it raised.
C7_Witness ==
    /\ Replied(last)
    /\ last.store \in {"create_chat", "add_message_1", "add_message_2"}

\* C8: the messages of each persisted chat are whole pairs: their number is
\* even and, in the order written, they alternate user, assistant.
C8_WholePairs ==
    \A c \in db.chats :
        LET ms == OrderById(MessagesOf(db, c.id))
        IN  /\ Len(ms) % 2 = 0
            /\ \A i \in 1..Len(ms) : ms[i].role = IF i % 2 = 1 THEN "user" ELSE "assistant"

\* the pointer of session s changes in this step only by a listed transition,
\* and the listed operations have their effect on it
PointerStep(s) ==
    LET p == Pointer(s)
        q == session'[s].current_chat_id
        r == last'
    IN  /\ p # q
           => /\ r.sid = s
              /\ r.status = 200
              /\ \/ p = None /\ r.op \in {"chat", "create_chat", "get_chat"}
                 \/ /\ p # None
                    /\ q = None
                    /\ r.op = "clear_chat" \/ (r.op = "delete_chat" /\ r.chat_id = p)
                 \/ p # None /\ q # None /\ r.op \in {"create_chat", "get_chat"}
        /\ (r.sid = s /\ r.status = 200 /\ r.op \in {"create_chat", "get_chat"})
           => q = r.chat_id /\ q # None
        /\ (r.sid = s /\ r.op = "clear_chat") => q = None
        /\ (r.sid = s /\ r.status = 200 /\ r.op = "delete_chat" /\ r.chat_id = p) => q = None
        /\ (r.sid = s /\ r.op = "chat" /\ p # None) => q = p

\* a replied submit of session s in this step, the session having no active chat
FirstSubmit(s) == Replied(last') /\ last'.sid = s /\ Pointer(s) = None

\* C9 as claimed: the pointer changes only by the listed transitions, and a
\* successful submit on an unset session always leaves it bound.
C9_PointerTransitions ==
    [][\A s \in Sessions :
         /\ PointerStep(s)
         /\ FirstSubmit(s) => session'[s].current_chat_id # None]_vars

\* C9 as amended: the pointer changes only by the listed transitions, and a
\* successful submit on an unset session leaves it bound to the chat it
\* created, unless the store's createChat failed: then it stays unset.
C9_PointerTransitionsUnlessCreateFails ==
    [][\A s \in Sessions :
         /\ PointerStep(s)
         /\ (FirstSubmit(s) /\ last'.store # "create_chat")
            => session'[s].current_chat_id = last'.chat_id /\ last'.chat_id \in ChatIds(db')
         /\ (FirstSubmit(s) /\ last'.store = "create_chat")
            => session'[s].current_chat_id = None]_vars

\* C9 witness: a submit on an unset session was replied to and the store's
\* createChat had failed; the session has no active chat.
C9_Witness ==
    /\ Replied(last)
    /\ last.store = "create_chat"
    /\ Pointer(last.sid) = None
    /\ History(last.sid) # <<>>

\* C10: getChat returns the messages of the chat in the order in which they
\* were appended, each with its role and content.
C10_GetChatInAppendOrder ==
    (last.op = "get_chat" /\ last.status = 200)
    => SessionFormat(last.body.chat.messages)
       = SessionFormat(OrderById(MessagesOf(db, last.chat_id)))

\* ids of the chats that were created and are no longer in the store
GoneChats(d) == (1..d.chat_seq) \ ChatIds(d)

\* ids of the messages that were inserted and are no longer in the store
GoneMessages(d) == (1..d.message_seq) \ {m.id : m \in d.messages}

\* C11: a successful deleteChat(id) removes the chat and exactly its messages
\* and leaves the other chats and messages as they were; a chat or message
\* once gone stays gone whatever operation follows; listChats returns no
\* chat that is gone, getChat reports a missing chat absent and returns for
\* an existing one only rows the store holds for it.
C11_DeletedStaysDeleted ==
    [][/\ GoneChats(db) \subseteq GoneChats(db')
       /\ GoneMessages(db) \subseteq GoneMessages(db')
       /\ (last'.op = "delete_chat" /\ last'.status = 200)
          => /\ last'.chat_id \notin ChatIds(db')
             /\ MessagesOf(db', last'.chat_id) = {}
             /\ db'.chats = {c \in db.chats : c.id # last'.chat_id}
             /\ db'.messages = {m \in db.messages : m.chat_id # last'.chat_id}
       /\ (last'.op = "get_chats" /\ last'.status = 200)
          => {last'.body.chats[i].id : i \in 1..Len(last'.body.chats)} \subseteq ChatIds(db')
       /\ (last'.op = "get_chat" /\ last'.chat_id \notin ChatIds(db'))
          => last'.status = 404
       /\ (last'.op = "get_chat" /\ last'.status = 200)
          => last'.body.chat.messages \in OrderByTimestamp(MessagesOf(db', last'.chat_id))]_vars

\* C11 witness: a chat with messages was deleted, another chat with messages
\* is still stored, and getChat of the deleted chat reported it absent.
C11_Witness ==
    /\ last.op = "get_chat"
    /\ last.status = 404
    /\ last.store = "ok"
    /\ last.chat_id \in GoneChats(db)
    /\ GoneMessages(db) # {}
    /\ \E c \in db.chats : MessagesOf(db, c.id) # {}

\* C12: a submit whose probe succeeded and whose model-listing call then
\* failed is answered with ServiceUnavailable, as a probe failure is.
C12_ListingFailureUnavailable ==
    (last.op = "chat" /\ last.probe = "200" /\ last.listing = "error")
    => last.status = 503

\* the names a reader finds in a ", "-separated enumeration
RECURSIVE Split(_)
Split(s) ==
    IF s = "" THEN <<>>
    ELSE LET at == {i \in 1..(Len(s) - 1) : SubSeq(s, i, i + 1) = ", "}
         IN  IF at = {} THEN <<s>>
             ELSE LET i == CHOOSE x \in at : \A y \in at : x <= y
                  IN  <<SubSeq(s, 1, i - 1)>> \o Split(SubSeq(s, i + 2, Len(s)))

\* the models enumerated in the error message of a ModelNotFound response
Enumerated(r) ==
    LET head == "Model " \o r.model \o " is not available. Available models: "
        msg  == r.body.error
    IN  IF Len(msg) >= Len(head) /\ SubSeq(msg, 1, Len(head)) = head
        THEN Split(SubSeq(msg, Len(head) + 1, Len(msg)))
        ELSE <<msg>>

\* C13: a submit that reaches the model-presence check with a model the
\* server's listing does not contain returns ModelNotFound, and its message
\* enumerates exactly the listed models in the listing's order; listModels
\* returns that listing as it is.
C13_ModelNotFoundListsModels ==
    /\ (/\ last.op = "chat"
        /\ last.listing = "ok"
        /\ last.model \notin {last.available_models[i] : i \in 1..Len(last.available_models)})
       => /\ last.status = 404
          /\ Enumerated(last) = last.available_models
    /\ (last.op = "get_models" /\ last.status = 200)
       => last.body.models = last.available_models

\* C13 witness: ModelNotFound for a model missing from a listing of two models.
C13_Witness ==
    /\ last.op = "chat"
    /\ last.status = 404
    /\ Len(last.available_models) = 2
    /\ Enumerated(last) = last.available_models

\* C14: loadChat of an identifier for which no chat exists fails with
\* NotFound and leaves history, pointer and selected model of every session
\* as they were.
C14_LoadMissingChat ==
    [][(last'.op = "get_chat" /\ last'.chat_id \notin ChatIds(db))
       => /\ last'.status = 404
          /\ session' = session
          /\ db' = db]_vars

\* C14 witness: NotFound was returned to a session that has a history, an
\* active chat and a selected model other than the default.
C14_Witness ==
    /\ last.op = "get_chat"
    /\ last.status = 404
    /\ last.store = "ok"
    /\ last.chat_id \notin ChatIds(db)
    /\ History(last.sid) # <<>>
    /\ Pointer(last.sid) # None
    /\ session[last.sid].current_model # DEFAULT_MODEL

\* text that is empty once whitespace is trimmed
Blank(text) == \A i \in 1..Len(text) : SubSeq(text, i, i) = WS

\* C15: renameChat with a title that is empty after trimming fails with
\* ValidationError, makes no store call and leaves every chat's title and
\* updated timestamp as they were.
C15_RenameEmptyTitle ==
    [][(last'.op = "update_chat" /\ Blank(last'.title))
       => /\ last'.status = 400
          /\ last'.store = "none"
          /\ store_errors' = store_errors
          /\ db' = db]_vars

\* C15 witness: a rename with a blank, non-empty title of a stored chat was
\* rejected.
C15_Witness ==
    /\ last.op = "update_chat"
    /\ last.status = 400
    /\ Blank(last.title)
    /\ last.title # ""
    /\ last.chat_id \in ChatIds(db)

\* C16: when a replied submit creates the chat, the stored title is the
\* trimmed message if that has at most 50 characters, and otherwise its
\* first 50 characters followed by "..."; it never has more than 53
\* characters, and a message of exactly 50 characters is its own title.
C16_TitleOfFirstSubmit ==
    [][(Replied(last') /\ Pointer(last'.sid) = None /\ last'.store # "create_chat")
       => LET m == last'.user_message
              created == {c \in db'.chats : c.id = last'.chat_id}
          IN  /\ last'.chat_id \notin ChatIds(db)
              /\ m # ""
              /\ SubSeq(m, 1, 1) # WS
              /\ SubSeq(m, Len(m), Len(m)) # WS
              /\ Cardinality(created) = 1
              /\ \A c \in created :
                    /\ Len(m) <= 50 => c.title = m
                    /\ Len(m) > 50 => c.title = SubSeq(m, 1, 50) \o "..."
                    /\ Len(c.title) <= 53]_vars

\* C16 witnesses: titles were stored for a message of 50 characters, kept
\* whole, and for a longer one, cut to 50 characters and "...".
C16_Witness ==
    /\ \E c \in db.chats : Len(c.title) = 50
    /\ \E c \in db.chats : Len(c.title) = 53 /\ SubSeq(c.title, 51, 53) = "..."

\* C17: every healthCheck result, healthy or unhealthy, includes the
\* session's currently selected model.
C17_HealthIncludesModel ==
    last.op = "health_check"
    => /\ "current_model" \in DOMAIN last.body
       /\ last.body.current_model = session[last.sid].current_model

\* C18: within one submit the checks come in the order validation, probe,
\* model-presence check, completion call.  An empty message is rejected
\* with ValidationError before any call is made; a failed probe yields
\* ServiceUnavailable before the listing is asked for, whatever the model;
\* the completion call is issued only after all three checks passed, and
\* once.
C18_ChecksInOrder ==
    last.op = "chat"
    => /\ last.user_message = "" => (last.status = 400 /\ last.calls = <<>>)
       /\ (last.user_message # "" /\ last.probe # "200")
          => (last.status = 503 /\ last.calls = <<TAGS_PROBE>>)
       /\ last.calls \in {<<>>, <<TAGS_PROBE>>, <<TAGS_PROBE, TAGS>>, <<TAGS_PROBE, TAGS, CHAT>>}
       /\ last.calls = <<TAGS_PROBE, TAGS, CHAT>>
          => /\ last.user_message # ""
             /\ last.probe = "200"
             /\ last.listing = "ok"
             /\ \E i \in 1..Len(last.available_models) : last.available_models[i] = last.model
       /\ last.status = 200 => last.calls = <<TAGS_PROBE, TAGS, CHAT>>

\* C18 witness: the completion call of a submit failed after all three
\* checks had passed; the calls made are probe, listing and one completion.
C18_Witness ==
    /\ last.op = "chat"
    /\ last.completion \in {"500", "RequestException"}
    /\ last.calls = <<TAGS_PROBE, TAGS, CHAT>>
    /\ last.status = 500

\* C19: a successful loadChat(id) replaces the session's history with the
\* role/content pairs of all of the chat's stored messages, in the order the
\* store returns them (ascending timestamp), whatever the history was, and
\* binds the pointer to id; the history is not cut, so it is longer than
\* 2 x history_limit whenever the chat has more messages than that.
C19_LoadReplacesHistory ==
    [][(last'.op = "get_chat" /\ last'.status = 200)
       => LET ms == last'.body.chat.messages
              id == last'.chat_id
              s == last'.sid
              rows == MessagesOf(db, id)
          IN  /\ id \in ChatIds(db)
              /\ Len(ms) = Cardinality(rows)
              /\ {ms[i] : i \in 1..Len(ms)}
                 = {[role |-> r.role, content |-> r.content, timestamp |-> r.timestamp] : r \in rows}
              /\ \A i, j \in 1..Len(ms) : i < j => ms[i].timestamp <= ms[j].timestamp
              /\ session'[s].chat_history
                 = [i \in 1..Len(ms) |-> [role |-> ms[i].role, content |-> ms[i].content]]
              /\ Cardinality(rows) > 2 * HistoryLimit
                 => Len(session'[s].chat_history) > 2 * HistoryLimit
              /\ session'[s].current_chat_id = id
              /\ session'[s].current_model = session[s].current_model]_vars

\* C19 witness: a chat with more than 2 x history_limit messages was loaded
\* and the session's history holds them all.
C19_Witness ==
    /\ last.op = "get_chat"
    /\ last.status = 200
    /\ Len(History(last.sid)) > 2 * HistoryLimit
    /\ Len(History(last.sid)) = Cardinality(MessagesOf(db, last.chat_id))
    /\ Pointer(last.sid) = last.chat_id

\* C20: clearSession empties the history and unsets the pointer of the
\* calling session and changes nothing else: the store, the session's
\* selected model and the other sessions are as they were.
C20_ClearSessionFrame ==
    [][last'.op = "clear_chat"
       => /\ last'.status = 200
          /\ session'[last'.sid].chat_history = <<>>
          /\ session'[last'.sid].current_chat_id = None
          /\ session'[last'.sid].current_model = session[last'.sid].current_model
          /\ \A s \in Sessions \ {last'.sid} : session'[s] = session[s]
          /\ db' = db]_vars

\* C20 witness: a session with a history, an active chat that is stored with
\* its messages, and a selected model other than the default was cleared.
C20_Witness ==
    /\ last.op = "clear_chat"
    /\ History(last.sid) = <<>>
    /\ Pointer(last.sid) = None
    /\ session[last.sid].current_model = OTHER_MODEL
    /\ \E c \in db.chats : MessagesOf(db, c.id) # {} /\ c.model = OTHER_MODEL

\* C21: chat identifiers are unique over the whole run: a chat created by
\* createChat or by a submit on an unset session gets an identifier that no
\* stored and no deleted chat ever had, which is the identifier returned;
\* the identifier and the model of a stored chat never change, whatever
\* model later submits on it name.
C21_ChatIdsUniqueAndImmutable ==
    [][/\ \A c \in db'.chats :
             c.id \notin ChatIds(db)
             => /\ c.id \notin GoneChats(db)
                /\ c.id = db.chat_seq + 1
                /\ last'.op \in {"chat", "create_chat"}
                /\ last'.chat_id = c.id
                /\ session'[last'.sid].current_chat_id = c.id
       /\ Cardinality(ChatIds(db')) = Cardinality(db'.chats)
       /\ ChatIds(db') \subseteq 1..db'.chat_seq
       /\ db'.chat_seq >= db.chat_seq
       /\ (last'.op = "create_chat" /\ last'.status = 200)
          => /\ last'.body.chat_id \in ChatIds(db') \ ChatIds(db)
             /\ last'.body.chat_id = last'.chat_id
       /\ \A c \in db.chats : \A e \in db'.chats :
             e.id = c.id => (e.model = c.model /\ e.created_at = c.created_at)]_vars

\* C21 witness: after a chat was deleted, a submit with another model than
\* the bound chat's was replied to and saved in that chat.
C21_Witness ==
    /\ Replied(last)
    /\ last.store = "saved"
    /\ last.history_len > 0
    /\ GoneChats(db) # {}
    /\ \E c \in db.chats : c.id = last.chat_id /\ c.model # last.model
                           /\ \E g \in GoneChats(db) : g < c.id

\* C22: session state is isolated per caller: whatever operation a caller
\* issues, the history, the pointer and the selected model of every other
\* session are after it what they were before.
C22_SessionsIsolated ==
    [][\A a \in Sessions : \A b \in Sessions \ {a} :
          last'.sid = a => session'[b] = session[b]]_vars

\* C22 witness: a caller deleted the chat that is the active chat of another
\* session, whose history and pointer are still in place.
C22_Witness ==
    /\ last.op = "delete_chat"
    /\ last.status = 200
    /\ \E b \in Sessions \ {last.sid} :
          /\ Pointer(b) = last.chat_id
          /\ History(b) # <<>>

\* C23: a submit whose completion call fails, by a non-success status or in
\* transport, returns an error and leaves the session's history, its
\* pointer and the store as they were: no chat is created, no message added.
C23_CompletionFailureNoEffect ==
    [][(last'.op = "chat" /\ last'.completion \in {"500", "RequestException"})
       => /\ last'.status = 500
          /\ "error" \in DOMAIN last'.body
          /\ "response" \notin DOMAIN last'.body
          /\ session'[last'.sid].chat_history = History(last'.sid)
          /\ session'[last'.sid].current_chat_id = Pointer(last'.sid)
          /\ db' = db]_vars

\* C23 witness: the completion call of a submit on an unset session with an
\* empty store returned a non-success status; no chat was created.
C23_Witness ==
    /\ last.op = "chat"
    /\ last.completion = "500"
    /\ last.status = 500
    /\ Pointer(last.sid) = None
    /\ History(last.sid) = <<>>
    /\ db = init_database

\* lst is what is left of whole after dropping some of its first entries
IsSuffix(lst, whole) ==
    /\ Len(lst) <= Len(whole)
    /\ lst = SubSeq(whole, Len(whole) - Len(lst) + 1, Len(whole))

\* C24: with one caller, no store failure and strictly increasing message
\* timestamps, in every reachable state a session without active chat has
\* an empty history, and a session bound to chat c finds c in the store and
\* its history equal, in role and content, to a suffix of the messages of
\* c in the order the store returns them.
C24_HistoryIsSuffixOfChat ==
    \A s \in Sessions :
        /\ Pointer(s) = None => History(s) = <<>>
        /\ Pointer(s) # None
           => /\ Pointer(s) \in ChatIds(db)
              /\ \A ms \in OrderByTimestamp(MessagesOf(db, Pointer(s))) :
                    IsSuffix(History(s),
                             [i \in 1..Len(ms) |-> [role |-> ms[i].role, content |-> ms[i].content]])

\* C24 witness: the session is bound to a chat that holds more messages than
\* the history, which has reached its limit.
C24_Witness ==
    /\ Pointer(1) # None
    /\ Len(History(1)) = 2 * HistoryLimit
    /\ Cardinality(MessagesOf(db, Pointer(1))) > Len(History(1))
    /\ StrictlyLater(db)

=============================================================================
